---- MODULE Spec2Model ----
(***************************************************************************)
(* Model of Template::new (src/src/template.rs): the per-file analysis     *)
(* that turns a parsed syntax tree into a Template record (blocks, macros, *)
(* imported macro files, parent pointer).                                  *)
(*                                                                         *)
(* A syntax tree is a sequence of nodes; a node is a record                *)
(*   [kind, name, tpl, body]                                               *)
(* where body is the ordered sequence of the node's children.  The source  *)
(* text handed to Template::new is represented by what the parser makes of *)
(* it: either a syntax error or the sequence of top-level nodes.           *)
(***************************************************************************)
EXTENDS Naturals, Sequences, FiniteSets

\* ------------------------------------------------------------------ bounds

\* Largest number of nodes in a tree built from every kind of node.
MaxNodes == 3

\* Trees built from Block and Macro nodes only are explored one node further,
\* so that a file can hold a repeated block name and a repeated macro name.
MaxDupNodes == MaxNodes + 1

\* Block, macro and parent-template names, file names and namespaces.
Names == {"a", "b"}

\* (file, namespace) pairs of the import tags.
Imports == {<<"a", "a">>, <<"b", "a">>, <<"a", "b">>}

\* The template names and the paths given to Template::new.
TplNames == {"hello"}

TplPaths == {"hello.html"}

\* ------------------------------------------------------------- Option / Result

None == [some |-> FALSE, val |-> ""]

Some(x) == [some |-> TRUE, val |-> x]

Ok(v) == [tag |-> "Ok", val |-> v]

Err(e) == [tag |-> "Err", val |-> e]

\* ------------------------------------------------------------------ Node

Node(kind, name, tpl, body) == [kind |-> kind, name |-> name, tpl |-> tpl, body |-> body]

Text == Node("Text", "", "", << >>)

Extends(name) == Node("Extends", name, "", << >>)

ImportMacro(tpl_name, name) == Node("ImportMacro", name, tpl_name, << >>)

If(body) == Node("If", "", "", body)

For(body) == Node("For", "", "", body)

Block(name, body) == Node("Block", name, "", body)

Macro(name, body) == Node("Macro", name, "", body)

\* The root of a parsed file: a list of the top-level nodes.
List(nodes) == Node("List", "", "", nodes)

\* The immediate children of a list node (a root, or the body of a Block), in order.
get_children(node) == node.body

\* Node kinds without a body, and node kinds with one (by their empty form).
LeafLabels ==
    {Text} \cup {Extends(n) : n \in Names} \cup {ImportMacro(p[1], p[2]) : p \in Imports}

BodyLabels ==
    {If(<< >>), For(<< >>)} \cup {Block(n, << >>) : n \in Names}
        \cup {Macro(n, << >>) : n \in Names}

DupLabels == {Block(n, << >>) : n \in Names} \cup {Macro(n, << >>) : n \in Names}

\* Forests(leaves, conts, n): the sequences of trees that hold exactly n nodes,
\* leaves drawn from `leaves` and nodes with a body from `conts`.
RECURSIVE Forests(_, _, _)
Forests(leaves, conts, n) ==
    IF n = 0 THEN {<< >>}
    ELSE UNION { { <<t>> \o rest :
                   t \in (IF k = 1 THEN leaves ELSE {})
                        \cup { [c EXCEPT !.body = b] :
                               c \in conts, b \in Forests(leaves, conts, k - 1) },
                   rest \in Forests(leaves, conts, n - k) } :
                 k \in 1..n }

\* A source text: [wellformed, nodes], a text the parser rejects or a text that
\* denotes the top-level nodes `nodes`.
SourceText(nodes) == [wellformed |-> TRUE, nodes |-> nodes]

Malformed == [wellformed |-> FALSE, nodes |-> << >>]

\* IsSource(text, leaves, conts, n): `text` denotes a tree of exactly n nodes
\* (the first tree of k nodes, the rest of n - k).
IsSource(text, leaves, conts, n) ==
    IF n = 0 THEN text = SourceText(<< >>)
    ELSE \E k \in 1..n : \E rest \in Forests(leaves, conts, n - k) :
            \/ /\ k = 1
               /\ \E t \in leaves : text = SourceText(<<t>> \o rest)
            \/ \E c \in conts : \E b \in Forests(leaves, conts, k - 1) :
                  text = SourceText(<<[c EXCEPT !.body = b]>> \o rest)

\* An error value: its kind and the name it reports ("" when it reports none).
Error(kind, name) == [kind |-> kind, name |-> name]

\* parse(input): the parser's result on a source text, the root list node of the
\* tree or a syntax error.
parse(input) ==
    IF input.wellformed THEN Ok(List(input.nodes)) ELSE Err(Error("SyntaxError", ""))

\* ------------------------------------------------------------------ maps

EmptyMap == [k \in {} |-> k]

contains_key(m, k) == k \in DOMAIN m

insert(m, k, v) == [x \in DOMAIN m \cup {k} |-> IF x = k THEN v ELSE m[x]]

\* ------------------------------------------------------------- find_blocks

\* find_blocks with the result of the walk of a block's body dropped (the call
\* on the children without its `?`): a repeated name inside a body goes unseen.
RECURSIVE find_blocks_unchecked_body(_, _)
find_blocks_unchecked_body(ast, blocks) ==
    IF ast = << >> THEN [blocks |-> blocks, err |-> None]
    ELSE LET node == Head(ast) IN
         IF node.kind = "Block"
         THEN IF contains_key(blocks, node.name)
              THEN [blocks |-> blocks, err |-> Some(Error("DuplicateBlock", node.name))]
              ELSE LET r == find_blocks_unchecked_body(get_children(node),
                                                       insert(blocks, node.name, node)) IN
                   find_blocks_unchecked_body(Tail(ast), r.blocks)
         ELSE find_blocks_unchecked_body(Tail(ast), blocks)

\* find_blocks storing each block without its body.
RECURSIVE find_blocks_bodiless(_, _)
find_blocks_bodiless(ast, blocks) ==
    IF ast = << >> THEN [blocks |-> blocks, err |-> None]
    ELSE LET node == Head(ast) IN
         IF node.kind = "Block"
         THEN IF contains_key(blocks, node.name)
              THEN [blocks |-> blocks, err |-> Some(Error("DuplicateBlock", node.name))]
              ELSE LET r == find_blocks_bodiless(get_children(node),
                                insert(blocks, node.name, Block(node.name, << >>))) IN
                   IF r.err.some THEN r
                   ELSE find_blocks_bodiless(Tail(ast), r.blocks)
         ELSE find_blocks_bodiless(Tail(ast), blocks)

\* find_blocks(ast, blocks): walks the nodes of `ast` in order; a Block whose
\* name is already a key of `blocks` ends the walk with an error, otherwise the
\* Block is inserted and its body is walked before the next node; every other
\* kind of node is skipped, its body not entered.
\* The result is [blocks, err]: the map as the walk left it and the error, if any.
RECURSIVE find_blocks(_, _)
find_blocks(ast, blocks) ==
    IF ast = << >> THEN [blocks |-> blocks, err |-> None]
    ELSE LET node == Head(ast) IN
         IF node.kind = "Block"
         THEN IF contains_key(blocks, node.name)
              THEN [blocks |-> blocks, err |-> Some(Error("DuplicateBlock", node.name))]
              ELSE LET r == find_blocks(get_children(node), insert(blocks, node.name, node)) IN
                   IF r.err.some THEN r
                   ELSE find_blocks(Tail(ast), r.blocks)
         ELSE find_blocks(Tail(ast), blocks)

\* ---------------------------------------------------------- top-level loop

\* The loop's iteration with the first Extends kept instead of the last.
top_level_node_first_extends(acc, node) ==
    IF node.kind = "Extends"
    THEN IF acc.parent.some THEN acc ELSE [acc EXCEPT !.parent = Some(node.name)]
    ELSE IF node.kind = "Macro"
    THEN IF contains_key(acc.macros, node.name)
         THEN [acc EXCEPT !.err = Some(Error("DuplicateMacro", node.name))]
         ELSE [acc EXCEPT !.macros = insert(acc.macros, node.name, node)]
    ELSE IF node.kind = "ImportMacro"
    THEN [acc EXCEPT !.imported_macro_files = Append(@, <<node.tpl, node.name>>)]
    ELSE acc

\* The loop's iteration without the contains_key test: a repeated macro
\* replaces the earlier one.
top_level_node_macro_overwrite(acc, node) ==
    IF node.kind = "Extends"
    THEN [acc EXCEPT !.parent = Some(node.name)]
    ELSE IF node.kind = "Macro"
    THEN [acc EXCEPT !.macros = insert(acc.macros, node.name, node)]
    ELSE IF node.kind = "ImportMacro"
    THEN [acc EXCEPT !.imported_macro_files = Append(@, <<node.tpl, node.name>>)]
    ELSE acc

\* The loop's iteration with a later import of a namespace replacing the
\* earlier imports of that namespace.
top_level_node_import_override(acc, node) ==
    IF node.kind = "Extends"
    THEN [acc EXCEPT !.parent = Some(node.name)]
    ELSE IF node.kind = "Macro"
    THEN IF contains_key(acc.macros, node.name)
         THEN [acc EXCEPT !.err = Some(Error("DuplicateMacro", node.name))]
         ELSE [acc EXCEPT !.macros = insert(acc.macros, node.name, node)]
    ELSE IF node.kind = "ImportMacro"
    THEN [acc EXCEPT !.imported_macro_files =
              Append(SelectSeq(@, LAMBDA p : p[2] # node.name), <<node.tpl, node.name>>)]
    ELSE acc

\* One iteration of the loop over the root's children, on the loop's locals
\* acc = [macros, imported_macro_files, parent, err].
top_level_node(acc, node) ==
    IF node.kind = "Extends"
    THEN [acc EXCEPT !.parent = Some(node.name)]
    ELSE IF node.kind = "Macro"
    THEN IF contains_key(acc.macros, node.name)
         THEN [acc EXCEPT !.err = Some(Error("DuplicateMacro", node.name))]
         ELSE [acc EXCEPT !.macros = insert(acc.macros, node.name, node)]
    ELSE IF node.kind = "ImportMacro"
    THEN [acc EXCEPT !.imported_macro_files = Append(@, <<node.tpl, node.name>>)]
    ELSE acc

\* The loop entering the body of every node.
RECURSIVE top_level_deep(_, _)
top_level_deep(nodes, acc) ==
    IF nodes = << >> THEN acc
    ELSE LET next == top_level_node(acc, Head(nodes)) IN
         IF next.err.some THEN next
         ELSE LET inner == top_level_deep(Head(nodes).body, next) IN
              IF inner.err.some THEN inner
              ELSE top_level_deep(Tail(nodes), inner)

\* The loop over the root's children; it stops at the first error.
RECURSIVE top_level(_, _)
top_level(nodes, acc) ==
    IF nodes = << >> THEN acc
    ELSE LET next == top_level_node(acc, Head(nodes)) IN
         IF next.err.some THEN next
         ELSE top_level(Tail(nodes), next)

TopLevelInit ==
    [macros |-> EmptyMap, imported_macro_files |-> << >>, parent |-> None, err |-> None]

\* ------------------------------------------------------------------ state

VARIABLES
    input,                  \* the source text given to Template::new
    tpl_name,               \* the name given to Template::new
    tpl_path,               \* the optional path given to Template::new
    pc,                     \* position in Template::new
    ast,                    \* the parsed tree (None before parsing)
    blocks,                 \* local `blocks`
    macros,                 \* local `macros`
    imported_macro_files,   \* local `imported_macro_files`
    parent,                 \* local `parent`
    result                  \* the value returned (None until the call returns)

vars == <<input, tpl_name, tpl_path, pc, ast, blocks, macros, imported_macro_files, parent, result>>

Init ==
    /\ \/ input = Malformed
       \/ \E n \in 0..MaxNodes : IsSource(input, LeafLabels, BodyLabels, n)
       \/ IsSource(input, {}, DupLabels, MaxDupNodes)
    /\ tpl_name \in TplNames
    /\ tpl_path \in {None} \cup {Some(p) : p \in TplPaths}
    /\ pc = "parse"
    /\ ast = None
    /\ blocks = EmptyMap
    /\ macros = EmptyMap
    /\ imported_macro_files = << >>
    /\ parent = None
    /\ result = None

\* let ast = parse(input)?;  -- the parser rejects the text
ParseErr ==
    /\ pc = "parse"
    /\ parse(input).tag = "Err"
    /\ result' = Some(Err(parse(input).val))
    /\ pc' = "done"
    /\ UNCHANGED <<input, tpl_name, tpl_path, ast, blocks, macros, imported_macro_files, parent>>

\* let ast = parse(input)?;  -- the parser returns the tree
ParseOk ==
    /\ pc = "parse"
    /\ parse(input).tag = "Ok"
    /\ ast' = Some(parse(input).val)
    /\ pc' = "find_blocks"
    /\ UNCHANGED <<input, tpl_name, tpl_path, blocks, macros, imported_macro_files, parent, result>>

\* find_blocks(ast.get_children(), &mut blocks)?;  -- the walk fails
FindBlocksErr ==
    /\ pc = "find_blocks"
    /\ LET r == find_blocks(get_children(ast.val), EmptyMap) IN
        /\ r.err.some
        /\ blocks' = r.blocks
        /\ result' = Some(Err(r.err.val))
    /\ pc' = "done"
    /\ UNCHANGED <<input, tpl_name, tpl_path, ast, macros, imported_macro_files, parent>>

\* find_blocks(ast.get_children(), &mut blocks)?;  -- the walk completes
FindBlocksOk ==
    /\ pc = "find_blocks"
    /\ LET r == find_blocks(get_children(ast.val), EmptyMap) IN
        /\ ~r.err.some
        /\ blocks' = r.blocks
    /\ pc' = "top_level"
    /\ UNCHANGED <<input, tpl_name, tpl_path, ast, macros, imported_macro_files, parent, result>>

\* for node in ast.get_children() { ... }  -- a macro name is repeated
TopLevelErr ==
    /\ pc = "top_level"
    /\ LET r == top_level(get_children(ast.val), TopLevelInit) IN
        /\ r.err.some
        /\ macros' = r.macros
        /\ imported_macro_files' = r.imported_macro_files
        /\ parent' = r.parent
        /\ result' = Some(Err(r.err.val))
    /\ pc' = "done"
    /\ UNCHANGED <<input, tpl_name, tpl_path, ast, blocks>>

\* for node in ast.get_children() { ... }  -- the loop completes
TopLevelOk ==
    /\ pc = "top_level"
    /\ LET r == top_level(get_children(ast.val), TopLevelInit) IN
        /\ ~r.err.some
        /\ macros' = r.macros
        /\ imported_macro_files' = r.imported_macro_files
        /\ parent' = r.parent
    /\ pc' = "return"
    /\ UNCHANGED <<input, tpl_name, tpl_path, ast, blocks, result>>

\* The Template built with `parents` seeded from `parent`.
NewTemplate_seeded_parents ==
    [name |-> tpl_name,
     path |-> tpl_path,
     ast |-> ast.val,
     parent |-> parent,
     blocks |-> blocks,
     macros |-> macros,
     imported_macro_files |-> imported_macro_files,
     parents |-> IF parent.some THEN <<parent.val>> ELSE << >>,
     blocks_definitions |-> EmptyMap]

\* The Template built from the locals.
NewTemplate ==
    [name |-> tpl_name,
     path |-> tpl_path,
     ast |-> ast.val,
     parent |-> parent,
     blocks |-> blocks,
     macros |-> macros,
     imported_macro_files |-> imported_macro_files,
     parents |-> << >>,
     blocks_definitions |-> EmptyMap]

\* Ok(Template { ... })
Return ==
    /\ pc = "return"
    /\ result' = Some(Ok(NewTemplate))
    /\ pc' = "done"
    /\ UNCHANGED <<input, tpl_name, tpl_path, ast, blocks, macros, imported_macro_files, parent>>

Next ==
    \/ ParseErr
    \/ ParseOk
    \/ FindBlocksErr
    \/ FindBlocksOk
    \/ TopLevelErr
    \/ TopLevelOk
    \/ Return

Spec == Init /\ [][Next]_vars

\* ------------------------------------------------- vocabulary of the claims

\* The call has returned.
Done == pc = "done"

\* The call has returned a Template / an error.
ReturnedOk == Done /\ result.some /\ result.val.tag = "Ok"

ReturnedErr == Done /\ result.some /\ result.val.tag = "Err"

\* The Template returned, and the error returned.
Tpl == result.val.val

Failure == result.val.val

\* The top-level nodes the source text denotes.
Top == input.nodes

\* Every node of a tree, in depth-first pre-order.
RECURSIVE PreOrder(_)
PreOrder(nodes) ==
    IF nodes = << >> THEN << >>
    ELSE <<Head(nodes)>> \o PreOrder(Head(nodes).body) \o PreOrder(Tail(nodes))

\* The Block nodes that have only Block nodes above them, in depth-first pre-order.
RECURSIVE BlockChain(_)
BlockChain(nodes) ==
    IF nodes = << >> THEN << >>
    ELSE IF Head(nodes).kind = "Block"
         THEN <<Head(nodes)>> \o BlockChain(Head(nodes).body) \o BlockChain(Tail(nodes))
         ELSE BlockChain(Tail(nodes))

OfKind(nodes, kind) == SelectSeq(nodes, LAMBDA n : n.kind = kind)

NamesOf(nodes) == {nodes[i].name : i \in DOMAIN nodes}

\* Two nodes of the sequence carry the same name.
Repeats(nodes) == \E i, j \in DOMAIN nodes : i < j /\ nodes[i].name = nodes[j].name

\* The first position of the sequence whose name occurs at an earlier position.
FirstRepeat(nodes) ==
    CHOOSE j \in DOMAIN nodes :
        /\ \E i \in 1..(j - 1) : nodes[i].name = nodes[j].name
        /\ \A k \in 1..(j - 1) : \A i \in 1..(k - 1) : nodes[i].name # nodes[k].name

AllBlocks == OfKind(PreOrder(Top), "Block")

TopMacros == OfKind(Top, "Macro")

TopExtends == OfKind(Top, "Extends")

TopImports == OfKind(Top, "ImportMacro")

\* The nodes that lie inside the body of some node.
Inner ==
    UNION { {PreOrder(Top[i].body)[j] : j \in DOMAIN PreOrder(Top[i].body)} :
            i \in DOMAIN Top }

\* ------------------------------------------------------------------ claims

\* C1: whenever Template::new succeeds, the keys of `blocks` are the names of
\* all the Block nodes of the tree, at any depth and under any kind of node.
C1_AllBlocksCollected ==
    ReturnedOk => DOMAIN Tpl.blocks = NamesOf(AllBlocks)

\* C2: whenever a block name occurs twice anywhere in the tree, Template::new
\* fails with a duplicate-block error and never returns a Template.
C2_AnyRepeatedBlockFails ==
    (Done /\ input.wellformed /\ Repeats(AllBlocks))
        => (ReturnedErr /\ Failure.kind = "DuplicateBlock")

\* C3 as stated: two or more top-level Extends nodes make Template::new fail
\* with a DuplicateExtends error.
C3_SecondExtendsFails ==
    (Done /\ Len(TopExtends) >= 2)
        => (ReturnedErr /\ Failure.kind = "DuplicateExtends")

\* C3 as amended: two or more top-level Extends nodes are no error of their own:
\* the call fails only with one of its other errors, and the Template it returns
\* otherwise has the name of the LAST top-level Extends as its `parent`.
C3_LastExtendsWins ==
    (Done /\ Len(TopExtends) >= 2)
        => /\ ReturnedErr => Failure.kind \in {"DuplicateBlock", "DuplicateMacro"}
           /\ ReturnedOk => Tpl.parent = Some(TopExtends[Len(TopExtends)].name)

\* A Template was returned for a file whose top level holds two Extends of
\* different names.
C3_Witness ==
    /\ ReturnedOk
    /\ Len(TopExtends) >= 2
    /\ TopExtends[1].name # TopExtends[Len(TopExtends)].name

\* C4 as stated: two top-level Macro nodes of one name make Template::new fail
\* with a duplicate-macro error; a Template returned has exactly the names of the
\* top-level Macro nodes as the keys of `macros`, each on one top-level Macro.
C4_RepeatedMacroIsMacroError ==
    /\ (Done /\ input.wellformed /\ Repeats(TopMacros))
           => (ReturnedErr /\ Failure.kind = "DuplicateMacro")
    /\ ReturnedOk => (DOMAIN Tpl.macros = NamesOf(TopMacros) /\ ~Repeats(TopMacros))

\* C4 as amended: two top-level Macro nodes of one name make Template::new fail,
\* with the duplicate-macro error when the block walk found no repeated block and
\* with the duplicate-block error of the walk otherwise; a Template returned has
\* exactly the names of the top-level Macro nodes as the keys of `macros`, each
\* on one top-level Macro.
C4_RepeatedMacroFails ==
    /\ (Done /\ input.wellformed /\ Repeats(TopMacros))
           => /\ ReturnedErr
              /\ Failure.kind =
                    IF Repeats(BlockChain(Top)) THEN "DuplicateBlock" ELSE "DuplicateMacro"
    /\ ReturnedOk => (DOMAIN Tpl.macros = NamesOf(TopMacros) /\ ~Repeats(TopMacros))

\* The duplicate-macro error was returned for a file with two top-level macros
\* of one name, one of them holding a macro of another name in its body.
C4_Witness ==
    /\ ReturnedErr
    /\ Failure.kind = "DuplicateMacro"
    /\ Repeats(TopMacros)
    /\ \E n \in Inner : n.kind = "Macro" /\ n.name \notin NamesOf(TopMacros)

\* C5: a Template returned has the (file, namespace) pairs of the top-level
\* ImportMacro nodes as `imported_macro_files`, one entry per node in declaration
\* order, repeated namespaces and files included.
C5_ImportsInOrder ==
    ReturnedOk =>
        /\ Len(Tpl.imported_macro_files) = Len(TopImports)
        /\ \A i \in DOMAIN TopImports :
              Tpl.imported_macro_files[i] = <<TopImports[i].tpl, TopImports[i].name>>

\* A Template was returned for a file that imports one namespace twice, from
\* different files.
C5_Witness ==
    /\ ReturnedOk
    /\ \E i, j \in DOMAIN TopImports :
          /\ i < j
          /\ TopImports[i].name = TopImports[j].name
          /\ TopImports[i].tpl # TopImports[j].tpl

\* C6: every Template returned has an empty `parents` and an empty
\* `blocks_definitions`, also when the file extends a parent and defines blocks.
C6_RegistryFieldsEmpty ==
    ReturnedOk => (Tpl.parents = << >> /\ DOMAIN Tpl.blocks_definitions = {})

\* A Template was returned for a file that extends a parent and defines a block.
C6_Witness ==
    /\ ReturnedOk
    /\ Tpl.parent.some
    /\ DOMAIN Tpl.blocks # {}

\* C7: Template::new returns an error, and no Template, exactly when the parser
\* fails or the walk meets a repeated block or the top level a repeated macro;
\* a Template returned holds the outcome of every step of a complete analysis.
C7_AllOrNothing ==
    Done =>
        /\ result.some
        /\ ReturnedErr <=> \/ ~input.wellformed
                           \/ Repeats(BlockChain(Top))
                           \/ Repeats(TopMacros)
        /\ ReturnedErr => DOMAIN Failure = {"kind", "name"}
        /\ ReturnedOk =>
              /\ DOMAIN Tpl.blocks = NamesOf(BlockChain(Top))
              /\ DOMAIN Tpl.macros = NamesOf(TopMacros)
              /\ Len(Tpl.imported_macro_files) = Len(TopImports)

\* An error was returned after the walk had collected a block.
C7_Witness ==
    /\ ReturnedErr
    /\ DOMAIN blocks # {}
    /\ Failure.kind = "DuplicateBlock"

\* C8: `parent`, `macros` and `imported_macro_files` of a Template returned are
\* read off the top-level nodes alone: `parent` is Some(name) of a top-level
\* Extends when there is one and None otherwise, the keys of `macros` are the
\* names of the top-level Macro nodes, the imports those of the top-level
\* ImportMacro nodes; nodes inside a body contribute to none of them.
C8_TopLevelOnly ==
    ReturnedOk =>
        /\ Tpl.parent.some <=> Len(TopExtends) > 0
        /\ Tpl.parent.some => Tpl.parent.val \in NamesOf(TopExtends)
        /\ DOMAIN Tpl.macros = NamesOf(TopMacros)
        /\ {Tpl.imported_macro_files[i] : i \in DOMAIN Tpl.imported_macro_files}
              = {<<TopImports[i].tpl, TopImports[i].name>> : i \in DOMAIN TopImports}

\* A Template without parent was returned for a file that holds an Extends inside
\* a body.
C8_Witness ==
    /\ ReturnedOk
    /\ ~Tpl.parent.some
    /\ \E n \in Inner : n.kind = "Extends"

\* C9: in a Template returned, blocks[k] is a Block node of the tree named k,
\* stored with its whole body, macros[k] is a top-level Macro node named k, and
\* `ast` is the tree the parser produced.
C9_StoredNodes ==
    ReturnedOk =>
        /\ \A k \in DOMAIN Tpl.blocks :
              /\ Tpl.blocks[k].kind = "Block"
              /\ Tpl.blocks[k].name = k
              /\ \E i \in DOMAIN AllBlocks : AllBlocks[i] = Tpl.blocks[k]
        /\ \A k \in DOMAIN Tpl.macros :
              /\ Tpl.macros[k].kind = "Macro"
              /\ Tpl.macros[k].name = k
              /\ \E i \in DOMAIN TopMacros : TopMacros[i] = Tpl.macros[k]
        /\ Tpl.ast = List(Top)

\* A Template was returned whose `blocks` holds a block and, under its own key,
\* a block of that block's body.
C9_Witness ==
    /\ ReturnedOk
    /\ \E k, m \in DOMAIN Tpl.blocks :
          /\ k # m
          /\ \E i \in DOMAIN Tpl.blocks[k].body : Tpl.blocks[k].body[i] = Tpl.blocks[m]

\* C10: for a file that holds a repeated block name and a repeated top-level
\* macro name the error is the duplicate-block error, and it names the first
\* block, in depth-first pre-order, whose name occurred before.
C10_BlockErrorFirst ==
    (Done /\ input.wellformed /\ Repeats(AllBlocks) /\ Repeats(TopMacros))
        => /\ ReturnedErr
           /\ Failure.kind = "DuplicateBlock"
           /\ Failure.name = AllBlocks[FirstRepeat(AllBlocks)].name

====
